---- MODULE Spec2Model ----
(***************************************************************************)
(* State-machine model of proj_cm33_ns/source/secure_tcp_server.c: the     *)
(* secure TCP server task (startup and dispatch loop), the three socket    *)
(* callbacks, and the user-button interrupt handler with its task          *)
(* notification.                                                           *)
(*                                                                         *)
(* Threads of control: the server task (pc), the secure-sockets worker     *)
(* that runs the three callbacks (each callback is one atomic action), and *)
(* the GPIO interrupt (one atomic action).  Time is the FreeRTOS tick.     *)
(***************************************************************************)
EXTENDS Integers, Sequences, FiniteSets, TLC

(***************************************************************************)
(* Program constants                                                       *)
(***************************************************************************)
MAX_ETH_RETRY_COUNT == 3
TCP_LED_CMD_LEN == 1
\* '1' and '0'
LED_ON_CMD == 49
LED_OFF_CMD == 48
RESET_VAL == 0
NULL_CHARACTER == 0
DEBOUNCE_TIME_MS == 100
\* FreeRTOS tick period in ms (configTICK_RATE_HZ = 1000); used at lines 695-704
portTICK_PERIOD_MS == 1
\* Capacity of message_buffer (declared in secure_tcp_server.h, used at line 590)
MAX_TCP_RECV_BUFFER_SIZE == 20
\* bool led_state values; only their distinctness matters
CYBSP_LED_STATE_ON == TRUE
CYBSP_LED_STATE_OFF == FALSE

\* cy_rslt_t values the code distinguishes
CY_RSLT_SUCCESS == "SUCCESS"
CY_RSLT_MODULE_SECURE_SOCKETS_CLOSED == "CLOSED"
\* any other failure (timeout, TLS error, invalid socket, ...)
CY_RSLT_OTHER_ERROR == "ERROR"
Results == {CY_RSLT_SUCCESS, CY_RSLT_MODULE_SECURE_SOCKETS_CLOSED, CY_RSLT_OTHER_ERROR}
\* no result: no call made yet, or the result has been tested and is dead
NoResult == "NONE"

\* The value of a cy_socket_t that names no socket (the zero-initialised global)
CY_SOCKET_INVALID_HANDLE == 0

\* cy_socket_ip_version_t values written at lines 400 and 408
CY_SOCKET_IP_VER_V4 == 4
CY_SOCKET_IP_VER_V6 == 6
\* The port of the server (declared in secure_tcp_server.h, used at lines 401
\* and 409)
TCP_SERVER_PORT == 50007
\* An address structure that is all zero: the zero-initialised global
\* tcp_server_addr, and the ip value of such a structure
ZeroSockaddr == [version |-> 0, ip |-> 0, port |-> 0]
\* Addresses the Ethernet bring-up can assign (IPv4 or link-local IPv6,
\* whichever the build asks for); none of them is the all-zero address
AssignedAddresses == {167772161, 167772162}

\* The tick counter and button_debounce_timestamp are uint32_t and wrap.  TLC's
\* integers are 32-bit signed, so the wrap is modelled at 2^16; every
\* comparison on them is taken modulo TICK_WRAP exactly as the C code takes it
\* modulo 2^32, and DEBOUNCE_TIME_MS stays far below the modulus.
TICK_WRAP == 2^16

(***************************************************************************)
(* Bounds of the model                                                     *)
(***************************************************************************)
\* client sockets the transport ever hands out
MaxHandles == 2
\* number of time advances
MaxTicks == 2

Handles == 1..MaxHandles
\* how far the clock moves between two events of the model
TickSteps == {DEBOUNCE_TIME_MS - 1, DEBOUNCE_TIME_MS, TICK_WRAP - DEBOUNCE_TIME_MS}

(***************************************************************************)
(* Acknowledgement payloads (sequences of byte values)                     *)
(***************************************************************************)
\* "LED ON ACK"
LED_ON_ACK == <<76, 69, 68, 32, 79, 78, 32, 65, 67, 75>>
\* "LED OFF ACK"
LED_OFF_ACK == <<76, 69, 68, 32, 79, 70, 70, 32, 65, 67, 75>>
\* "led on ack"
LedOnAckLower == <<108, 101, 100, 32, 111, 110, 32, 97, 99, 107>>
\* bytes used to vary the literal: NUL, space, 'K', 'k', '1'
VaryBytes == {0, 32, 75, 107, 49}

Prefixes(s) == {SubSeq(s, 1, n) : n \in 0..Len(s)}
Substitutions(s) == {[s EXCEPT ![i] = b] : i \in 1..Len(s), b \in VaryBytes}
Extensions(s) == {s \o <<a>> : a \in VaryBytes} \cup {s \o <<a, b>> : a, b \in VaryBytes}
\* a payload that fills the receive buffer completely
FullBuffer == LED_ON_ACK \o [i \in 1..(MAX_TCP_RECV_BUFFER_SIZE - Len(LED_ON_ACK)) |-> 32]

\* payloads presented to the acknowledgement comparison
AckPayloads ==
    Prefixes(LED_ON_ACK) \cup Substitutions(LED_ON_ACK) \cup Extensions(LED_ON_ACK)
        \cup {LED_OFF_ACK, LedOnAckLower, FullBuffer}
\* payloads a client sends in the full model: one positive, one negative
RxPayloads == {LED_ON_ACK, LED_OFF_ACK}

NoMessage == <<-1>>

VARIABLES
    pc,                         \* position of tcp_secure_server_task
    retry_count,                \* connect_to_ethernet's local
    led_state_cmd,              \* the task's local, written by xTaskNotifyWait
    client_connected,           \* global flag
    client_handle,              \* global handle slot
    sock,                       \* transport: state of every client socket
    led_state,                  \* global mirrored LED state
    button_debouncing,          \* global
    button_debounce_timestamp,  \* global
    notify_pending,             \* task notification state (eNotified)
    ulNotifiedValue,            \* task notification value
    clock,                      \* elapsed ms since boot, never wraps
    nticks,                     \* time advances so far
    rx,                         \* acknowledgement in flight (AckSpec only)
    result,                     \* the task's cy_rslt_t local between
                                \* cy_socket_send and the test of its result
    sent,                       \* bytes handed to the cy_socket_send in progress
    use_ipv6_address,           \* the build-time choice USE_IPV6_ADDRESS
    tcp_server_addr,            \* global: address the server socket binds to
    ip_addr,                    \* connect_to_ethernet's local (its ip field)
    \* history variables
    unconsumed,                 \* edges the ISR accepted minus returns of
                                \* xTaskNotifyWait
    last_accept,                \* clock of the last accepted edge, -1 if none
    closed_seen,                \* a client closed and no accept succeeded since
    cmd_after_close,            \* the command in hand was consumed while closed_seen
    returned,                   \* what the latest call of the startup
                                \* returned, stored by the code or not
    assigned_addr,              \* the address the Ethernet bring-up assigned
    startup_log,                \* startup calls invoked so far, in order
    returned_ok                 \* startup calls whose stored result was success

vars == <<pc, retry_count, led_state_cmd, client_connected, client_handle, sock,
          led_state, button_debouncing, button_debounce_timestamp, notify_pending,
          ulNotifiedValue, clock, nticks, rx, result, sent, use_ipv6_address,
          tcp_server_addr, ip_addr, unconsumed, last_accept, closed_seen,
          cmd_after_close, returned, assigned_addr, startup_log, returned_ok>>

\* what connect_to_ethernet leaves behind, and the record of the startup
ethVars == <<use_ipv6_address, tcp_server_addr, ip_addr, assigned_addr>>
startupVars == <<ethVars, startup_log, returned_ok>>
\* the call the task is making
callVars == <<result, returned, sent>>
loopVars == <<pc, retry_count, led_state_cmd>>
taskVars == <<loopVars, callVars, startupVars>>
connVars == <<client_connected, client_handle, sock>>
btnVars == <<button_debouncing, button_debounce_timestamp>>
notifyVars == <<notify_pending, ulNotifiedValue>>
timeVars == <<clock, nticks>>
histVars == <<unconsumed, last_accept, closed_seen, cmd_after_close>>

OpenHandles == {h \in Handles : sock[h] = "open"}
Listening == pc \in {"wait", "check", "send", "sent"}

(***************************************************************************)
(* Initial state: globals zero-initialised or as initialised at lines      *)
(* 153-166, the task about to run.                                         *)
(***************************************************************************)
Init ==
    /\ pc = "irq_init"
    /\ retry_count = 0
    /\ led_state_cmd = LED_OFF_CMD
    /\ client_connected = FALSE
    /\ client_handle = CY_SOCKET_INVALID_HANDLE
    /\ sock = [h \in Handles |-> "unused"]
    /\ led_state = CYBSP_LED_STATE_OFF
    /\ button_debouncing = FALSE
    /\ button_debounce_timestamp = 0
    /\ notify_pending = FALSE
    /\ ulNotifiedValue = 0
    /\ clock = 0
    /\ nticks = 0
    /\ rx = NoMessage
    /\ result = NoResult
    /\ sent = <<>>
    /\ use_ipv6_address \in BOOLEAN
    /\ tcp_server_addr = ZeroSockaddr
    /\ ip_addr = 0
    /\ returned = NoResult
    /\ assigned_addr = 0
    /\ startup_log = <<>>
    /\ returned_ok = {}
    /\ unconsumed = 0
    /\ last_accept = -1
    /\ closed_seen = FALSE
    /\ cmd_after_close = FALSE

(***************************************************************************)
(* Pure helpers                                                            *)
(***************************************************************************)
\* uint32_t arithmetic on the tick counter
Wrap(x) == (x + TICK_WRAP) % TICK_WRAP
\* xTaskGetTickCount()
xTaskGetTickCount == (clock \div portTICK_PERIOD_MS) % TICK_WRAP
\* (xTaskGetTickCount() * portTICK_PERIOD_MS), line 695 and lines 703-704
TickMs == (xTaskGetTickCount * portTICK_PERIOD_MS) % TICK_WRAP

\* A debounce test that accepts any edge at a later tick
DebounceElapsedAnyLater(now, timestamp) == now # timestamp
\* A debounce test that rejects an edge exactly one debounce time later
DebounceElapsedStrict(now, timestamp) ==
    Wrap(now - timestamp) > (DEBOUNCE_TIME_MS * portTICK_PERIOD_MS) % TICK_WRAP
\* lines 695-697: now - button_debounce_timestamp >= DEBOUNCE_TIME_MS * portTICK_PERIOD_MS
DebounceElapsed(now, timestamp) ==
    Wrap(now - timestamp) >= (DEBOUNCE_TIME_MS * portTICK_PERIOD_MS) % TICK_WRAP

\* A handler that raises the command of the state the LED already has
ButtonCommandMirrored(led) == IF led = CYBSP_LED_STATE_ON THEN LED_ON_CMD ELSE LED_OFF_CMD
\* A handler that raises the ON command whatever the mirrored LED state is
ButtonCommandAlwaysOn(led) == LED_ON_CMD
\* lines 711-718: the command is the toggle of the mirrored LED state
ButtonCommand(led) == IF led = CYBSP_LED_STATE_ON THEN LED_OFF_CMD ELSE LED_ON_CMD

\* A notification that overwrites a pending value (eSetValueWithOverwrite)
NotifyValueOverwrite(pending, old, new) == new
\* xTaskNotifyFromISR(..., eSetValueWithoutOverwrite, ...): the value is written
\* only when no notification is pending
NotifyValueWithoutOverwrite(pending, old, new) == IF pending THEN old ELSE new

\* A wait that leaves the notification pending
PendingLeftSet == TRUE
\* xTaskNotifyWait: returning clears the pending state
PendingAfterWait == FALSE

\* A dispatch that sends whatever the connection flag says
SendAlways(connected) == "send"
\* line 300: if(client_connected)
DispatchTarget(connected) == IF connected THEN "send" ELSE "wait"

\* An accept path that clears the flag when the accept fails
ConnectedAfterAcceptCleared(res, connected) == res = CY_RSLT_SUCCESS
\* lines 554-562: the flag is set on success and not touched on failure
ConnectedAfterAccept(res, connected) ==
    IF res = CY_RSLT_SUCCESS THEN TRUE ELSE connected

\* line 601: index at which the terminator is stored
NulIndex(bytes_received) == bytes_received
\* message_buffer after cy_socket_recv stored `payload` and line 601 terminated
\* it; indices run from 0, and index MAX_TCP_RECV_BUFFER_SIZE is past the array
MessageBuffer(payload) ==
    [i \in 0..NulIndex(Len(payload)) |->
        IF i < Len(payload) THEN payload[i + 1] ELSE NULL_CHARACTER]

\* the i-th char of a C string literal, its terminator included
CharAt(lit, i) == IF i < Len(lit) THEN lit[i + 1] ELSE NULL_CHARACTER

RECURSIVE StrcmpFrom(_, _, _)
StrcmpFrom(buf, lit, i) ==
    IF buf[i] # CharAt(lit, i) THEN buf[i] - CharAt(lit, i)
    ELSE IF buf[i] = NULL_CHARACTER THEN 0
    ELSE StrcmpFrom(buf, lit, i + 1)
\* strcmp(message_buffer, literal)
Strcmp(buf, lit) == StrcmpFrom(buf, lit, 0)

\* lines 601-612: the mirrored LED state a received payload produces
AckLedState(payload) ==
    IF Strcmp(MessageBuffer(payload), LED_ON_ACK) = RESET_VAL
    THEN CYBSP_LED_STATE_ON ELSE CYBSP_LED_STATE_OFF

\* A test that takes every failure for a close by the peer
AnyFailure(res) == res # CY_RSLT_SUCCESS
\* lines 319 and 618: if (CY_RSLT_MODULE_SECURE_SOCKETS_CLOSED == result)
PeerClosed(res) == res = CY_RSLT_MODULE_SECURE_SOCKETS_CLOSED

\* A flag that survives a failed cy_socket_disconnect
ConnectedAfterFailedDisconnect(res, connected) ==
    IF res = CY_RSLT_SUCCESS THEN FALSE ELSE connected
\* line 661: client_connected = false, whatever cy_socket_disconnect returned
ConnectedAfterDisconnect(res, connected) == FALSE

\* The bytes of a uint32_t, most significant first
Uint32BytesBigEndian(v) == [i \in 1..4 |-> (v \div (256 ^ (4 - i))) % 256]
\* The bytes of a uint32_t in memory order on the little-endian Cortex-M33
Uint32Bytes(v) == [i \in 1..4 |-> (v \div (256 ^ (i - 1))) % 256]
\* lines 303-304: cy_socket_send is handed the address of led_state_cmd and
\* the length TCP_LED_CMD_LEN
SendBuffer(cmd) == SubSeq(Uint32Bytes(cmd), 1, TCP_LED_CMD_LEN)

\* A receive handler that switches the mirrored LED state off when the receive
\* fails
LedAfterFailedReceiveOff(res, payload, led) ==
    IF res = CY_RSLT_SUCCESS THEN AckLedState(payload) ELSE CYBSP_LED_STATE_OFF
\* lines 598-626: led_state is written in the success branch only
LedAfterReceive(res, payload, led) ==
    IF res = CY_RSLT_SUCCESS THEN AckLedState(payload) ELSE led

\* cy_socket_disconnect + cy_socket_delete on a handle
DisconnectAndDelete(h) ==
    IF h \in Handles THEN [sock EXCEPT ![h] = "deleted"] ELSE sock

\* results cy_socket_send can produce on a handle: a handle that names no socket
\* is refused; a deleted socket is freed memory, so any result may come back
SendResults(h) ==
    IF h \in Handles /\ sock[h] \in {"open", "deleted"} THEN Results
    ELSE {CY_RSLT_OTHER_ERROR}

\* handle_app_error(): the task never returns from it and nothing runs after
Halted == pc = "halt"

(***************************************************************************)
(* Startup of tcp_secure_server_task                                       *)
(***************************************************************************)
\* the result of a startup call that succeeds or fails
RsltOf(ok) == IF ok THEN CY_RSLT_SUCCESS ELSE CY_RSLT_OTHER_ERROR

\* A caller that goes on whatever the result is
AfterResultIgnored(res, next) == next
\* if (result != CY_RSLT_SUCCESS) { ... handle_app_error(); } at task level,
\* and { ... return result; } inside create_secure_tcp_server_socket, whose
\* caller then takes the same branch (lines 271-275)
AfterResult(res, next) == IF res = CY_RSLT_SUCCESS THEN next ELSE "halt"

\* A setup that binds before it sets the TLS authentication mode
SetupStepAfterBindFirst(step) ==
    CASE step = "cs_create" -> "cs_rcvtimeo"
      [] step = "cs_rcvtimeo" -> "cs_connect_cb"
      [] step = "cs_connect_cb" -> "cs_receive_cb"
      [] step = "cs_receive_cb" -> "cs_disconnect_cb"
      [] step = "cs_disconnect_cb" -> "cs_tls_identity"
      [] step = "cs_tls_identity" -> "cs_bind"
      [] step = "cs_bind" -> "cs_auth_mode"
      [] step = "cs_auth_mode" -> "listen"
\* the calls of create_secure_tcp_server_socket in program order (lines
\* 449-524), and the call its caller makes next (line 278)
SetupStepAfter(step) ==
    CASE step = "cs_create" -> "cs_rcvtimeo"
      [] step = "cs_rcvtimeo" -> "cs_connect_cb"
      [] step = "cs_connect_cb" -> "cs_receive_cb"
      [] step = "cs_receive_cb" -> "cs_disconnect_cb"
      [] step = "cs_disconnect_cb" -> "cs_tls_identity"
      [] step = "cs_tls_identity" -> "cs_auth_mode"
      [] step = "cs_auth_mode" -> "cs_bind"
      [] step = "cs_bind" -> "listen"

\* one library call of the startup sequence and the test of its stored result
StartupCall(at, next, ok) ==
    /\ pc = at
    /\ returned' = RsltOf(ok)
    /\ startup_log' = Append(startup_log, at)
    /\ returned_ok' = IF returned' = CY_RSLT_SUCCESS THEN returned_ok \cup {at}
                      ELSE returned_ok
    /\ pc' = AfterResult(returned', next)
    /\ UNCHANGED <<retry_count, led_state_cmd, result, sent, ethVars, connVars,
                   led_state, btnVars, notifyVars, timeVars, rx, histVars>>

SysIntInit(ok) == StartupCall("irq_init", "ecm_init", ok)
EcmInit(ok) == StartupCall("ecm_init", "ethif_init", ok)
EcmEthifInit(ok) == StartupCall("ethif_init", "ecm_connect", ok)

\* A retry test that allows one attempt more
RetriesExhaustedLate(count) == count > MAX_ETH_RETRY_COUNT
\* line 381: if (retry_count >= MAX_ETH_RETRY_COUNT)
RetriesExhausted(count) == count >= MAX_ETH_RETRY_COUNT

\* lines 406-409: the IPv4 build copies the assigned address into
\* tcp_server_addr
ServerAddrV4(addr) ==
    [version |-> CY_SOCKET_IP_VER_V4, ip |-> addr, port |-> TCP_SERVER_PORT]
\* lines 399-401: memcpy(ip_addr.ip.v6, tcp_server_addr.ip_address.ip.v6, ...)
\* copies from tcp_server_addr into the local, so the ip field of
\* tcp_server_addr keeps the value it had
ServerAddrV6(addr, old) ==
    [version |-> CY_SOCKET_IP_VER_V6, ip |-> old.ip, port |-> TCP_SERVER_PORT]

\* one iteration of the loop in connect_to_ethernet (lines 375-414).  In the
\* IPv4 build a successful attempt ends the function, and the caller tests the
\* result (line 229); the local retry_count dies with the function.
EcmConnect(ok, addr) ==
    /\ pc = "ecm_connect"
    /\ returned' = RsltOf(ok)
    /\ startup_log' = IF retry_count = 0 THEN Append(startup_log, "ecm_connect")
                      ELSE startup_log
    /\ IF ok
       THEN /\ ip_addr' = addr
            /\ returned_ok' = returned_ok \cup {"ecm_connect"}
            /\ IF use_ipv6_address
               THEN /\ pc' = "get_ipv6"
                    /\ UNCHANGED <<retry_count, tcp_server_addr, assigned_addr>>
               ELSE /\ tcp_server_addr' = ServerAddrV4(ip_addr')
                    /\ assigned_addr' = addr
                    /\ retry_count' = 0
                    /\ pc' = AfterResult(returned', "socket_init")
       ELSE /\ retry_count' = retry_count + 1
            /\ pc' = IF RetriesExhausted(retry_count') THEN "halt"
                     ELSE "ecm_connect"
            /\ UNCHANGED <<ip_addr, tcp_server_addr, assigned_addr, returned_ok>>
    /\ UNCHANGED <<led_state_cmd, result, sent, use_ipv6_address, connVars,
                   led_state, btnVars, notifyVars, timeVars, rx, histVars>>

\* lines 393-402 of the IPv6 build, the return at line 415 and the caller's
\* test of the result (line 229)
EcmGetIpv6Address(ok, addr) ==
    /\ pc = "get_ipv6"
    /\ returned' = RsltOf(ok)
    /\ startup_log' = Append(startup_log, "get_ipv6")
    /\ IF ok
       THEN /\ assigned_addr' = addr
            /\ ip_addr' = tcp_server_addr.ip
            /\ tcp_server_addr' = ServerAddrV6(addr, tcp_server_addr)
            /\ returned_ok' = returned_ok \cup {"get_ipv6"}
            /\ retry_count' = 0
       ELSE UNCHANGED <<assigned_addr, ip_addr, tcp_server_addr, returned_ok,
                        retry_count>>
    /\ pc' = AfterResult(returned', "socket_init")
    /\ UNCHANGED <<led_state_cmd, result, sent, use_ipv6_address, connVars,
                   led_state, btnVars, notifyVars, timeVars, rx, histVars>>

SocketInit(ok) == StartupCall("socket_init", "tls_identity", ok)
TlsCreateIdentity(ok) == StartupCall("tls_identity", "root_ca", ok)
TlsLoadRootCa(ok) == StartupCall("root_ca", "cs_create", ok)

\* create_secure_tcp_server_socket, one action per library call
SetupSocketCreate(ok) == StartupCall("cs_create", SetupStepAfter("cs_create"), ok)
SetupRcvTimeo(ok) == StartupCall("cs_rcvtimeo", SetupStepAfter("cs_rcvtimeo"), ok)
SetupConnectCallback(ok) ==
    StartupCall("cs_connect_cb", SetupStepAfter("cs_connect_cb"), ok)
SetupReceiveCallback(ok) ==
    StartupCall("cs_receive_cb", SetupStepAfter("cs_receive_cb"), ok)
SetupDisconnectCallback(ok) ==
    StartupCall("cs_disconnect_cb", SetupStepAfter("cs_disconnect_cb"), ok)
SetupTlsIdentity(ok) ==
    StartupCall("cs_tls_identity", SetupStepAfter("cs_tls_identity"), ok)
\* lines 520-521: the result of setting CY_SOCKET_SO_TLS_AUTH_MODE is neither
\* stored nor tested
SetupTlsAuthMode(ok) ==
    /\ pc = "cs_auth_mode"
    /\ returned' = RsltOf(ok)
    /\ startup_log' = Append(startup_log, "cs_auth_mode")
    /\ pc' = SetupStepAfter("cs_auth_mode")
    /\ UNCHANGED <<retry_count, led_state_cmd, result, sent, ethVars,
                   returned_ok, connVars, led_state, btnVars, notifyVars,
                   timeVars, rx, histVars>>
\* lines 524-530: the result of cy_socket_bind is returned to the task
SetupBind(ok) == StartupCall("cs_bind", SetupStepAfter("cs_bind"), ok)
SocketListen(ok) == StartupCall("listen", "wait", ok)

(***************************************************************************)
(* The dispatch loop of tcp_secure_server_task                             *)
(***************************************************************************)
\* xTaskNotifyWait returns once a notification is pending
XTaskNotifyWait ==
    /\ pc = "wait"
    /\ notify_pending
    /\ led_state_cmd' = ulNotifiedValue
    /\ notify_pending' = PendingAfterWait
    /\ unconsumed' = unconsumed - 1
    /\ cmd_after_close' = closed_seen
    /\ pc' = "check"
    /\ UNCHANGED <<retry_count, callVars, startupVars, connVars, led_state,
                   btnVars, ulNotifiedValue, timeVars, rx, last_accept,
                   closed_seen>>

\* the test of client_connected
CheckClientConnected ==
    /\ pc = "check"
    /\ pc' = DispatchTarget(client_connected)
    /\ cmd_after_close' = IF pc' = "send" THEN cmd_after_close ELSE FALSE
    /\ UNCHANGED <<retry_count, led_state_cmd, callVars, startupVars, connVars,
                   led_state, btnVars, notifyVars, timeVars, rx, unconsumed,
                   last_accept, closed_seen>>

\* lines 303-304: cy_socket_send on client_handle returns a result
SocketSend(res) ==
    /\ pc = "send"
    /\ res \in SendResults(client_handle)
    /\ result' = res
    /\ sent' = SendBuffer(led_state_cmd)
    /\ closed_seen' = IF PeerClosed(res) THEN TRUE ELSE closed_seen
    /\ pc' = "sent"
    /\ UNCHANGED <<retry_count, led_state_cmd, returned, startupVars, connVars,
                   led_state, btnVars, notifyVars, timeVars, rx, unconsumed,
                   last_accept, cmd_after_close>>

\* lines 305-326: the test of the result of cy_socket_send, and back to
\* xTaskNotifyWait
HandleSendResult ==
    /\ pc = "sent"
    /\ sock' = IF PeerClosed(result) THEN DisconnectAndDelete(client_handle)
               ELSE sock
    /\ result' = NoResult
    /\ sent' = <<>>
    /\ pc' = "wait"
    /\ cmd_after_close' = FALSE
    /\ UNCHANGED <<retry_count, led_state_cmd, returned, startupVars,
                   client_connected, client_handle, led_state, btnVars,
                   notifyVars, timeVars, rx, unconsumed, last_accept,
                   closed_seen>>

(***************************************************************************)
(* Socket callbacks, run by the transport once the server listens          *)
(***************************************************************************)
\* the handle cy_socket_accept hands out
FreshHandle == CHOOSE h \in Handles : sock[h] = "unused" /\ \A g \in Handles : sock[g] = "unused" => h <= g

TcpConnectionHandler(res) ==
    /\ Listening
    /\ IF res = CY_RSLT_SUCCESS
       THEN /\ \E h \in Handles : sock[h] = "unused"
            /\ client_handle' = FreshHandle
            /\ sock' = [sock EXCEPT ![FreshHandle] = "open"]
            /\ closed_seen' = FALSE
            /\ cmd_after_close' = FALSE
       ELSE UNCHANGED <<client_handle, sock, closed_seen, cmd_after_close>>
    /\ client_connected' = ConnectedAfterAccept(res, client_connected)
    /\ UNCHANGED <<taskVars, led_state, btnVars, notifyVars, timeVars, rx,
                   unconsumed, last_accept>>

TcpReceiveMsgHandler(socket_handle, res, payload) ==
    /\ Listening
    /\ socket_handle \in OpenHandles
    /\ led_state' = LedAfterReceive(res, payload, led_state)
    /\ IF res # CY_RSLT_SUCCESS /\ PeerClosed(res)
       THEN /\ sock' = DisconnectAndDelete(socket_handle)
            /\ closed_seen' = TRUE
       ELSE UNCHANGED <<sock, closed_seen>>
    /\ UNCHANGED <<taskVars, client_connected, client_handle, btnVars, notifyVars,
                   timeVars, unconsumed, last_accept, cmd_after_close>>

\* res is what cy_socket_disconnect returns (line 652)
TcpDisconnectionHandler(socket_handle, res) ==
    /\ Listening
    /\ socket_handle \in OpenHandles
    /\ sock' = DisconnectAndDelete(socket_handle)
    /\ client_connected' = ConnectedAfterDisconnect(res, client_connected)
    /\ closed_seen' = TRUE
    /\ UNCHANGED <<taskVars, client_handle, led_state, btnVars, notifyVars,
                   timeVars, rx, unconsumed, last_accept, cmd_after_close>>

(***************************************************************************)
(* The button interrupt and the passage of time                            *)
(***************************************************************************)
\* btn1 is Cy_GPIO_GetInterruptStatus(CYBSP_USER_BTN1_PORT, CYBSP_USER_BTN1_PIN);
\* the interrupt is enabled at line 225
UserButtonInterruptHandler(btn1) ==
    /\ pc # "irq_init"
    /\ ~Halted
    /\ LET elapsed == btn1 /\ ~button_debouncing
                        /\ DebounceElapsed(TickMs, button_debounce_timestamp)
           debouncing == btn1 /\ (button_debouncing \/ elapsed)
       IN /\ button_debounce_timestamp' =
                 IF elapsed THEN TickMs ELSE button_debounce_timestamp
          /\ IF debouncing
             THEN /\ button_debouncing' = FALSE
                  /\ ulNotifiedValue' = NotifyValueWithoutOverwrite(
                         notify_pending, ulNotifiedValue, ButtonCommand(led_state))
                  /\ notify_pending' = TRUE
                  /\ unconsumed' = unconsumed + 1
                  /\ last_accept' = clock
             ELSE UNCHANGED <<button_debouncing, notifyVars, unconsumed, last_accept>>
    /\ UNCHANGED <<taskVars, connVars, led_state, timeVars, rx,
                   closed_seen, cmd_after_close>>

Tick(d) ==
    /\ ~Halted
    /\ nticks < MaxTicks
    /\ clock' = clock + d
    /\ nticks' = nticks + 1
    /\ UNCHANGED <<taskVars, connVars, led_state, btnVars, notifyVars, rx, histVars>>

(***************************************************************************)
(* Specifications                                                          *)
(***************************************************************************)
TaskStep ==
    \/ \E ok \in BOOLEAN : SysIntInit(ok)
    \/ \E ok \in BOOLEAN : EcmInit(ok)
    \/ \E ok \in BOOLEAN : EcmEthifInit(ok)
    \/ \E ok \in BOOLEAN, addr \in AssignedAddresses : EcmConnect(ok, addr)
    \/ \E ok \in BOOLEAN, addr \in AssignedAddresses : EcmGetIpv6Address(ok, addr)
    \/ \E ok \in BOOLEAN : SocketInit(ok)
    \/ \E ok \in BOOLEAN : TlsCreateIdentity(ok)
    \/ \E ok \in BOOLEAN : TlsLoadRootCa(ok)
    \/ \E ok \in BOOLEAN : SetupSocketCreate(ok)
    \/ \E ok \in BOOLEAN : SetupRcvTimeo(ok)
    \/ \E ok \in BOOLEAN : SetupConnectCallback(ok)
    \/ \E ok \in BOOLEAN : SetupReceiveCallback(ok)
    \/ \E ok \in BOOLEAN : SetupDisconnectCallback(ok)
    \/ \E ok \in BOOLEAN : SetupTlsIdentity(ok)
    \/ \E ok \in BOOLEAN : SetupTlsAuthMode(ok)
    \/ \E ok \in BOOLEAN : SetupBind(ok)
    \/ \E ok \in BOOLEAN : SocketListen(ok)
    \/ XTaskNotifyWait
    \/ CheckClientConnected
    \/ \E res \in Results : SocketSend(res)
    \/ HandleSendResult

Next ==
    \/ TaskStep
    \/ \E res \in Results : TcpConnectionHandler(res)
    \/ \E h \in Handles, res \in Results, payload \in RxPayloads :
           TcpReceiveMsgHandler(h, res, payload) /\ UNCHANGED rx
    \/ \E h \in Handles, res \in Results : TcpDisconnectionHandler(h, res)
    \/ \E btn1 \in BOOLEAN : UserButtonInterruptHandler(btn1)
    \/ \E d \in TickSteps : Tick(d)

Spec == Init /\ [][Next]_vars

\* The scheduler runs the server task whenever it can take a step, and every
\* library call it makes returns.
FairSpec == Spec /\ WF_vars(TaskStep)

\* the calls a startup of the IPv4 build has made when the task reaches the
\* dispatch loop (lines 217-278)
StartupCallsV4 ==
    <<"irq_init", "ecm_init", "ethif_init", "ecm_connect", "socket_init",
      "tls_identity", "root_ca", "cs_create", "cs_rcvtimeo", "cs_connect_cb",
      "cs_receive_cb", "cs_disconnect_cb", "cs_tls_identity", "cs_auth_mode",
      "cs_bind", "listen">>

\* The acknowledgement comparison on its own: a client is connected and one
\* acknowledgement is in flight; the receive callback takes it.
InitAck ==
    /\ pc = "wait"
    /\ retry_count = 0
    /\ led_state_cmd = LED_OFF_CMD
    /\ client_connected = TRUE
    /\ client_handle = 1
    /\ sock = [h \in Handles |-> IF h = 1 THEN "open" ELSE "unused"]
    /\ led_state \in BOOLEAN
    /\ button_debouncing = FALSE
    /\ button_debounce_timestamp = 0
    /\ notify_pending = FALSE
    /\ ulNotifiedValue = 0
    /\ clock = 0
    /\ nticks = 0
    /\ rx \in AckPayloads
    /\ result = NoResult
    /\ sent = <<>>
    /\ use_ipv6_address = FALSE
    /\ tcp_server_addr \in {ServerAddrV4(addr) : addr \in AssignedAddresses}
    /\ ip_addr = tcp_server_addr.ip
    /\ returned = CY_RSLT_SUCCESS
    /\ assigned_addr = tcp_server_addr.ip
    /\ startup_log = StartupCallsV4
    /\ returned_ok = {StartupCallsV4[i] : i \in 1..Len(StartupCallsV4)}
                          \ {"cs_auth_mode"}
    /\ unconsumed = 0
    /\ last_accept = -1
    /\ closed_seen = FALSE
    /\ cmd_after_close = FALSE

ReceiveAck ==
    /\ rx # NoMessage
    /\ \E h \in Handles : TcpReceiveMsgHandler(h, CY_RSLT_SUCCESS, rx)
    /\ rx' = NoMessage

NextAck == ReceiveAck

AckSpec == InitAck /\ [][NextAck]_vars

(***************************************************************************)
(* Claims                                                                  *)
(***************************************************************************)

\* C1: in every reachable state at most one client connection is live: no
\* handle is accepted while a previously accepted handle is still open.
C1_AtMostOneLiveClient == Cardinality(OpenHandles) <= 1

\* C2: when cy_socket_recv in tcp_receive_msg_handler fails with the
\* peer-closed result, client_connected is false when the handler returns.
C2_RecvClosedLeavesIdle ==
    [][(\E h \in Handles :
            TcpReceiveMsgHandler(h, CY_RSLT_MODULE_SECURE_SOCKETS_CLOSED, LED_ON_ACK))
        => ~client_connected']_vars

\* C3: when cy_socket_send in the dispatch loop fails with the peer-closed
\* result, client_connected is false before the loop waits again.
C3_SendClosedLeavesIdle ==
    [][(result = CY_RSLT_MODULE_SECURE_SOCKETS_CLOSED /\ HandleSendResult)
        => ~client_connected']_vars

\* C4: a signal consumed after a client closed its side (peer-closed send,
\* peer-closed receive or disconnect callback) and before a new successful
\* accept is discarded: the loop does not go on to cy_socket_send.
C4_DiscardAfterClose ==
    [][(pc = "check" /\ cmd_after_close) => pc' # "send"]_vars

\* C5: when the loop has consumed a signal and finds client_connected false,
\* it goes back to waiting without calling cy_socket_send, disconnect or
\* delete, and the connection state is unchanged.
C5_DiscardWhenIdle ==
    [][(pc = "check" /\ ~client_connected /\ pc' # "check")
        => (pc' = "wait" /\ UNCHANGED connVars)]_vars

\* C5 happens: a press was accepted and consumed with no client ever connected,
\* and the loop is waiting again.
C5_Witness ==
    /\ pc = "wait"
    /\ last_accept >= 0
    /\ unconsumed = 0
    /\ ~notify_pending
    /\ ~client_connected
    /\ \A h \in Handles : sock[h] = "unused"

\* C6: a successful accept leaves client_connected true, and client_connected
\* turns false only in a step that disconnects and deletes a client socket (the
\* disconnect callback or a peer-closed event), never in a signal, a send, a
\* receive or a failed accept.
C6_ConnectedUntilClose ==
    [][/\ (\E h \in Handles : sock[h] = "unused" /\ sock'[h] = "open")
              => client_connected'
       /\ (client_connected /\ ~client_connected')
              => (\E h \in Handles : sock[h] = "open" /\ sock'[h] = "deleted")]_vars

\* C6 happens: the first client ever accepted is still connected after its
\* "LED ON ACK" was received and after the command of a later press (OFF, read
\* from the mirrored state) was consumed and dispatched; the flag is still true.
C6_Witness ==
    /\ client_connected
    /\ client_handle = 1
    /\ sock[1] = "open"
    /\ \A h \in Handles \ {1} : sock[h] = "unused"
    /\ ~closed_seen
    /\ led_state = CYBSP_LED_STATE_ON
    /\ led_state_cmd = LED_OFF_CMD
    /\ last_accept >= 0
    /\ unconsumed = 0
    /\ pc = "wait"

\* C7: an edge is accepted only if no edge was accepted before or the last
\* accepted edge is at least DEBOUNCE_TIME_MS old; within the window after an
\* accepted edge no edge is accepted and no notification is raised.
C7_Debounce ==
    [][/\ unconsumed' = unconsumed + 1
              => (last_accept = -1 \/ clock - last_accept >= DEBOUNCE_TIME_MS)
       /\ (last_accept # -1 /\ clock - last_accept < DEBOUNCE_TIME_MS)
              => (unconsumed' <= unconsumed /\ ~(~notify_pending /\ notify_pending'))]_vars

\* C7 happens: two edges were accepted, the second after the tick counter
\* wrapped.
C7_Witness == unconsumed >= 2 /\ last_accept >= TICK_WRAP

\* C8: a pending notification is cleared only by xTaskNotifyWait returning its
\* value, every return of xTaskNotifyWait takes one pending notification, and
\* (the task being scheduled and startup not failing) a pending notification
\* is eventually consumed.
C8_NotifyConsumedOnce ==
    /\ [][(notify_pending /\ ~notify_pending')
            => (pc = "wait" /\ pc' = "check" /\ unconsumed' = unconsumed - 1
                /\ led_state_cmd' = ulNotifiedValue)]_vars
    /\ [][(unconsumed' = unconsumed - 1) => (notify_pending /\ ~notify_pending')]_vars
    /\ (notify_pending ~> (~notify_pending \/ Halted))

\* C8 happens: the notification of an accepted press has just been delivered.
C8_Witness ==
    /\ pc = "check"
    /\ ~notify_pending
    /\ last_accept >= 0
    /\ unconsumed = 0
    /\ led_state_cmd = ulNotifiedValue

\* C9: an accepted press that finds a notification pending leaves it pending
\* with its value unchanged, and the loop never consumes more commands than
\* presses were accepted.
C9_SingleSlotChannel ==
    /\ [](unconsumed >= 0)
    /\ [][(notify_pending /\ unconsumed' = unconsumed + 1)
            => (notify_pending' /\ ulNotifiedValue' = ulNotifiedValue)]_vars

\* C9 happens: a press was accepted while a notification was pending, and the
\* command it carried differs from the pending one.
C9_Witness ==
    /\ notify_pending
    /\ unconsumed >= 2
    /\ led_state = CYBSP_LED_STATE_ON
    /\ ulNotifiedValue = LED_ON_CMD

\* C10: a successfully received payload sets led_state to ON if and only if
\* its bytes are exactly those of "LED ON ACK".
C10_AckByteExact ==
    [][(rx # NoMessage /\ rx' = NoMessage)
        => (led_state' = CYBSP_LED_STATE_ON <=> rx = LED_ON_ACK)]_vars

\* C11: the string terminator is never stored outside the receive buffer: for
\* every byte count cy_socket_recv can report, 0..MAX_TCP_RECV_BUFFER_SIZE
\* inclusive, every index the receive handler writes is at most
\* MAX_TCP_RECV_BUFFER_SIZE - 1.
C11_TerminatorInBounds ==
    [][(rx # NoMessage /\ rx' = NoMessage) =>
          \A i \in DOMAIN MessageBuffer(rx) : i <= MAX_TCP_RECV_BUFFER_SIZE - 1]_vars

\* C12: connect_to_ethernet calls cy_ecm_connect at most MAX_ETH_RETRY_COUNT
\* times; it returns success at the first attempt that succeeds, and it returns
\* a failure exactly when MAX_ETH_RETRY_COUNT consecutive attempts have failed.
C12_RetryBound ==
    /\ [](pc = "ecm_connect" => retry_count < MAX_ETH_RETRY_COUNT)
    /\ [][(pc \in {"ecm_connect", "get_ipv6"} /\ pc' \in {"socket_init", "halt"})
            => /\ pc' = "socket_init" <=> "ecm_connect" \in returned_ok'
               /\ pc' = "halt" <=> retry_count' = MAX_ETH_RETRY_COUNT]_vars
    /\ [][(pc = "ecm_connect" /\ retry_count' # retry_count)
            => (pc' = "halt" <=> retry_count' = MAX_ETH_RETRY_COUNT)]_vars

\* C12 as the code has it: at most MAX_ETH_RETRY_COUNT attempts; the loop stops
\* at the first attempt that succeeds, and the function then returns success,
\* except that the IPv6 build returns the failure of cy_ecm_get_ipv6_address
\* when that call fails; otherwise a failure is returned exactly when
\* MAX_ETH_RETRY_COUNT consecutive attempts have failed.
C12_RetryBoundOrAddressFailure ==
    /\ [](pc = "ecm_connect" => retry_count < MAX_ETH_RETRY_COUNT)
    /\ [][(pc = "ecm_connect" /\ <<pc, retry_count>>' # <<pc, retry_count>>)
            => IF returned' = CY_RSLT_SUCCESS
               THEN pc' = IF use_ipv6_address THEN "get_ipv6" ELSE "socket_init"
               ELSE /\ retry_count' = retry_count + 1
                    /\ pc' = "halt" <=> retry_count' = MAX_ETH_RETRY_COUNT
                    /\ pc' # "halt" => pc' = "ecm_connect"]_vars
    /\ [][(pc = "get_ipv6" /\ pc' # pc)
            => /\ use_ipv6_address /\ "ecm_connect" \in returned_ok
               /\ pc' = "socket_init" <=> returned' = CY_RSLT_SUCCESS
               /\ pc' = "halt" <=> returned' # CY_RSLT_SUCCESS]_vars

\* C12 happens: three attempts in a row failed and the function returned the
\* failure; no attempt succeeded.
C12_Witness ==
    /\ pc = "halt"
    /\ retry_count = MAX_ETH_RETRY_COUNT
    /\ startup_log[Len(startup_log)] = "ecm_connect"
    /\ "ecm_connect" \notin returned_ok

\* C13: startup is ordered and fatal on failure: cy_socket_init,
\* create_secure_tcp_server_socket and cy_socket_listen are invoked only after
\* connect_to_ethernet has returned success, and the dispatch loop is entered
\* only after socket setup and cy_socket_listen have both returned success.
C13_StartupFatalOnFailure ==
    /\ (\/ pc \in {"socket_init", "cs_create", "listen"}
        \/ \E i \in 1..Len(startup_log) :
               startup_log[i] \in {"socket_init", "cs_create", "listen"})
           => /\ "ecm_connect" \in returned_ok
              /\ use_ipv6_address => "get_ipv6" \in returned_ok
    /\ Listening => {"cs_create", "cs_bind", "listen"} \subseteq returned_ok

\* C13 happens: the IPv6 build went through the whole startup and the task is
\* in the dispatch loop.
C13_Witness ==
    /\ pc = "wait"
    /\ use_ipv6_address
    /\ "listen" \in returned_ok
    /\ startup_log[Len(startup_log)] = "listen"

\* C14: when any step of create_secure_tcp_server_socket fails (creation,
\* receive timeout, the three callback registrations, the TLS identity, the
\* TLS authentication mode, the bind), no later step is performed: the step
\* after a failed one is the end of the startup.
C14_SetupAbortsOnFailure ==
    [][(/\ pc \in {"cs_create", "cs_rcvtimeo", "cs_connect_cb", "cs_receive_cb",
                   "cs_disconnect_cb", "cs_tls_identity", "cs_auth_mode", "cs_bind"}
        /\ startup_log' # startup_log
        /\ returned' # CY_RSLT_SUCCESS)
        => pc' = "halt"]_vars

\* C15: the command an accepted press produces does not depend on the
\* acknowledgements received before it: two runs with the same presses and
\* different acknowledgements raise the same commands.  One such run receives no
\* acknowledgement at all; led_state then keeps its initial OFF and every command
\* it raises is LED_ON_CMD, so the claim says that every accepted press, in
\* every run, raises LED_ON_CMD.  (The command is observed in the notification
\* value, which the press writes when no notification is pending.)
C15_CommandIndependentOfAck ==
    [][(unconsumed' = unconsumed + 1 /\ ~notify_pending)
        => ulNotifiedValue' = LED_ON_CMD]_vars

\* C15 as the code has it: the command depends on the acknowledgements received
\* before the press through the mirrored led_state they left, and on nothing
\* else: it is LED_OFF_CMD exactly when led_state is ON at the interrupt.
C15_CommandFollowsMirroredState ==
    [][(unconsumed' = unconsumed + 1 /\ ~notify_pending)
        => /\ ulNotifiedValue' \in {LED_ON_CMD, LED_OFF_CMD}
           /\ ulNotifiedValue' = LED_OFF_CMD <=> led_state = CYBSP_LED_STATE_ON]_vars

\* C15 happens: an acknowledgement set led_state ON and the press accepted
\* after it raised the OFF command, which is pending.
C15_Witness ==
    /\ notify_pending
    /\ unconsumed = 1
    /\ ulNotifiedValue = LED_OFF_CMD
    /\ led_state = CYBSP_LED_STATE_ON

\* C16: when the loop has consumed a command and a client is connected, the
\* payload handed to cy_socket_send is exactly one byte: '1' if the consumed
\* command is ON, '0' if it is OFF, the value the ISR placed in the
\* notification.
C16_SendsCommandByte ==
    /\ pc = "sent"
           => /\ Len(sent) = 1
              /\ led_state_cmd \in {LED_ON_CMD, LED_OFF_CMD}
              /\ sent[1] = led_state_cmd
    /\ pc # "sent" => sent = <<>>

\* C16 happens: the ISR raised the OFF command, the loop consumed it with a
\* client connected, and cy_socket_send was handed the byte '0'.
C16_Witness ==
    /\ pc = "sent"
    /\ sent = <<LED_OFF_CMD>>
    /\ client_connected
    /\ unconsumed = 0
    /\ last_accept >= 0

\* C17: whenever connect_to_ethernet returns success, tcp_server_addr holds the
\* address the Ethernet bring-up assigned, in the IP version of the build, and
\* the configured port.
C17_BindAddressIsAssigned ==
    (/\ "ecm_connect" \in returned_ok
     /\ use_ipv6_address => "get_ipv6" \in returned_ok)
        => /\ tcp_server_addr.ip = assigned_addr
           /\ tcp_server_addr.port = TCP_SERVER_PORT
           /\ tcp_server_addr.version =
                  IF use_ipv6_address THEN CY_SOCKET_IP_VER_V6
                  ELSE CY_SOCKET_IP_VER_V4

\* C18: the steps of the socket setup are invoked in the fixed order create,
\* receive timeout, connect-request callback, receive callback, disconnect
\* callback, TLS identity, TLS authentication mode, bind; cy_socket_listen is
\* invoked at most once, and only after the bind has returned success.
C18_SetupOrderListenOnce ==
    LET order == <<"cs_create", "cs_rcvtimeo", "cs_connect_cb", "cs_receive_cb",
                   "cs_disconnect_cb", "cs_tls_identity", "cs_auth_mode",
                   "cs_bind", "listen">>
        setup == SelectSeq(startup_log, LAMBDA c : \E i \in 1..Len(order) : order[i] = c)
    IN /\ Len(setup) <= Len(order)
       /\ \A i \in 1..Len(setup) : setup[i] = order[i]
       /\ (pc = "listen" \/ \E i \in 1..Len(startup_log) : startup_log[i] = "listen")
              => "cs_bind" \in returned_ok
       /\ pc = "listen" => \A i \in 1..Len(startup_log) : startup_log[i] # "listen"

\* C18 happens: the IPv4 build invoked all eight setup steps in order, the
\* bind succeeded, cy_socket_listen was invoked once and the server listens.
C18_Witness ==
    /\ pc = "wait"
    /\ ~use_ipv6_address
    /\ startup_log = StartupCallsV4
    /\ "cs_bind" \in returned_ok

\* C19: tcp_disconnection_handler, whatever the state it is invoked in and
\* whatever cy_socket_disconnect returns, disconnects and deletes the handle it
\* was given and leaves client_connected false.
C19_DisconnectAlwaysCleansUp ==
    [][\A h \in Handles, res \in Results :
           TcpDisconnectionHandler(h, res)
               => (sock'[h] = "deleted" /\ ~client_connected')]_vars

\* C19 happens: the first client was accepted and the disconnection handler
\* then ran on its handle: the socket is deleted and the flag, which nothing
\* else clears, is false.
C19_Witness ==
    /\ client_handle = 1
    /\ sock[1] = "deleted"
    /\ \A h \in Handles \ {1} : sock[h] = "unused"
    /\ ~client_connected

\* C20: a failed cy_socket_accept, a receive failure other than peer-closed and
\* a send failure other than peer-closed each leave client_connected and
\* led_state as they were and disconnect or delete no socket; after the send
\* failure the loop goes back to waiting.
C20_TransientErrorsChangeNothing ==
    /\ [][\A res \in Results \ {CY_RSLT_SUCCESS} :
              TcpConnectionHandler(res)
                  => UNCHANGED <<client_connected, led_state, sock>>]_vars
    /\ [][\A h \in Handles, payload \in RxPayloads :
              TcpReceiveMsgHandler(h, CY_RSLT_OTHER_ERROR, payload)
                  => UNCHANGED <<client_connected, led_state, sock>>]_vars
    /\ [][(pc = "send" /\ pc' # pc /\ result' = CY_RSLT_OTHER_ERROR)
              => UNCHANGED <<client_connected, led_state, sock>>]_vars
    /\ [][(pc = "sent" /\ pc' # pc /\ result = CY_RSLT_OTHER_ERROR)
              => (pc' = "wait" /\ UNCHANGED <<client_connected, led_state, sock>>)]_vars

\* C20 happens: with a client connected and its socket open, cy_socket_send has
\* just failed with a result other than peer-closed.
C20_Witness ==
    /\ pc = "sent"
    /\ result = CY_RSLT_OTHER_ERROR
    /\ client_connected
    /\ client_handle \in Handles
    /\ sock[client_handle] = "open"
    /\ led_state = CYBSP_LED_STATE_ON

\* C21: the command an accepted press raises is the toggle of led_state as read
\* in the interrupt: '0' when led_state is ON, '1' when it is OFF; the press
\* itself leaves led_state alone, so presses with no acknowledgement in between
\* raise the same command.
C21_CommandTogglesMirroredState ==
    /\ [][(unconsumed' = unconsumed + 1 /\ ~notify_pending)
            => ulNotifiedValue' = IF led_state = CYBSP_LED_STATE_ON
                                  THEN LED_OFF_CMD ELSE LED_ON_CMD]_vars
    /\ [][unconsumed' = unconsumed + 1 => led_state' = led_state]_vars

\* C21 happens: no client ever connected, so no acknowledgement was received;
\* a first press raised '1' and the loop consumed it, and a second accepted
\* press raised '1' again, which is pending.
C21_Witness ==
    /\ \A h \in Handles : sock[h] = "unused"
    /\ led_state = CYBSP_LED_STATE_OFF
    /\ led_state_cmd = LED_ON_CMD
    /\ notify_pending
    /\ unconsumed = 1
    /\ ulNotifiedValue = LED_ON_CMD

\* C22: an edge of the button is accepted if and only if the unsigned
\* difference, modulo the width of the tick counter, between the current time
\* and the last accepted timestamp (initially 0) is at least DEBOUNCE_TIME_MS,
\* so also across a wrap of the counter and at exactly DEBOUNCE_TIME_MS; an
\* accepted edge records the current time and raises exactly one notification;
\* a rejected edge changes neither the timestamp nor the in-progress flag; the
\* flag is false whenever the handler is not running.
C22_DebounceIffElapsed ==
    /\ [](~button_debouncing)
    /\ []((/\ pc # "irq_init"
           /\ ~Halted
           /\ (TickMs - button_debounce_timestamp) % TICK_WRAP >= DEBOUNCE_TIME_MS)
              => ENABLED (UserButtonInterruptHandler(TRUE)
                              /\ unconsumed' = unconsumed + 1))
    /\ [][UserButtonInterruptHandler(TRUE)
            => IF (TickMs - button_debounce_timestamp) % TICK_WRAP >= DEBOUNCE_TIME_MS
               THEN /\ button_debounce_timestamp' = TickMs
                    /\ unconsumed' = unconsumed + 1
                    /\ notify_pending'
               ELSE UNCHANGED <<button_debounce_timestamp, button_debouncing,
                                unconsumed, notifyVars>>]_vars
    /\ [][button_debounce_timestamp' # button_debounce_timestamp
            => unconsumed' = unconsumed + 1]_vars

\* C22 happens: an edge was accepted DEBOUNCE_TIME_MS after boot and a second
\* one exactly DEBOUNCE_TIME_MS after the first; both raised a notification.
C22_Witness ==
    /\ clock = 2 * DEBOUNCE_TIME_MS
    /\ last_accept = clock
    /\ button_debounce_timestamp = clock
    /\ unconsumed = 2
    /\ ~button_debouncing

\* C23: no client handle is disconnected-and-deleted more than once: none of
\* the three places that delete a client socket (the peer-closed branch after
\* cy_socket_send, the peer-closed branch of the receive handler, the
\* disconnection handler) acts on a handle that has been deleted already.
C23_DeleteAtMostOnce ==
    [][\A h \in Handles :
           (\/ HandleSendResult /\ PeerClosed(result) /\ client_handle = h
            \/ \E payload \in RxPayloads :
                   TcpReceiveMsgHandler(h, CY_RSLT_MODULE_SECURE_SOCKETS_CLOSED, payload)
            \/ \E res \in Results : TcpDisconnectionHandler(h, res))
               => sock[h] = "open"]_vars

\* C24: cy_socket_send is never invoked on a client handle that has been
\* deleted, whatever the interleaving of the loop with the callbacks.
C24_SendOnLiveHandle ==
    [][(pc = "send" /\ pc' = "sent")
        => (client_handle \in Handles /\ sock[client_handle] = "open")]_vars

\* C25: led_state is written only by a successful receive in
\* tcp_receive_msg_handler; accepts, disconnects, sends, button presses and
\* failed receives leave it unchanged, so the value a client's last
\* acknowledgement set outlives that client's disconnect and decides the
\* command of the next accepted press.
C25_LedStateWrittenByReceiveOnly ==
    /\ [][led_state' # led_state
            => \E h \in Handles, payload \in RxPayloads :
                   TcpReceiveMsgHandler(h, CY_RSLT_SUCCESS, payload)]_vars
    /\ [][(\/ \E res \in Results : TcpConnectionHandler(res)
           \/ \E h \in Handles, res \in Results : TcpDisconnectionHandler(h, res)
           \/ \E h \in Handles, res \in Results \ {CY_RSLT_SUCCESS},
                 payload \in RxPayloads : TcpReceiveMsgHandler(h, res, payload)
           \/ TaskStep
           \/ \E btn1 \in BOOLEAN : UserButtonInterruptHandler(btn1))
            => led_state' = led_state]_vars

\* C25 happens: the only client there has been acknowledged LED ON and then
\* disconnected; led_state is still ON, and the press accepted with it raised
\* the OFF command, which is pending.
C25_Witness ==
    /\ sock[1] = "deleted"
    /\ \A h \in Handles \ {1} : sock[h] = "unused"
    /\ ~client_connected
    /\ led_state = CYBSP_LED_STATE_ON
    /\ notify_pending
    /\ ulNotifiedValue = LED_OFF_CMD
    /\ unconsumed = 1
====
